---- MODULE Spec2Model ----
(***************************************************************************)
(* Telint: telephone number parsing, validation and formatting with        *)
(* metadata fetched over the network and cached on disk.                   *)
(*                                                                         *)
(* Text is modelled as a sequence of one-character strings, so that the    *)
(* regular expressions and the str methods of the source act on            *)
(* characters.  A file is modelled by its bytes: what gzip and pickle      *)
(* accept is what the source can read back.                                *)
(***************************************************************************)
EXTENDS Integers, Sequences, FiniteSets, TLC

VARIABLES
    files,      \* cache directory: cache key -> content of its .cache file
    now,        \* time.time(), in seconds
    obs,        \* the last call on the cache layer, with what it returned
    written,    \* cache key -> the value and time of the last set that succeeded
    handler,    \* PhoneNumber._metadata_handler (class attribute)
    threads,    \* the threads that construct a PhoneNumber
    cacheDir,   \* ~/.telint_cache: "absent", "present", or "blocked" (cannot be made)
    nHandlers,  \* how many times _MetadataHandler.__init__ has run
    nDownloads, \* how many times _download_json has been called
    pn,         \* a PhoneNumber object
    fm,         \* a NumFormatter object
    lock        \* _CacheManager._lock

vars == <<files, cacheDir, now, obs, written, handler, threads, nHandlers, nDownloads, pn, fm, lock>>

----------------------------------------------------------------------------
(* Bounds of the model *)

\* longest run of the digit 5 in a raw phone number
MaxRun == 14
\* most entries of the countries table in the PhoneNumber specification
MaxTable == 2
\* the clock of the cache specification runs over MaxDays steps of CACHE_TTL
\* seconds and MaxSecs steps of one second
MaxDays == 1
MaxSecs == 1
\* threads that construct a PhoneNumber
NThreads == 2

----------------------------------------------------------------------------
(* Characters and text *)

\* Python's None where a text is expected: no text equals it
None == <<"None">>

US == <<"U", "S">>
UK == <<"U", "K">>
FR == <<"F", "R">>

AsciiDigits == {"0", "1", "2", "3", "4", "5", "6", "7", "8", "9"}

\* "u0663" stands for the one character ARABIC-INDIC DIGIT THREE: the str
\* patterns of Python 3 match every Unicode decimal digit with \d
UnicodeDigits == {"u0663"}

IsDigit(c) == c \in AsciiDigits \cup UnicodeDigits

Rep(c, n) == [i \in 1..n |-> c]

CountDigits(s) == Cardinality({i \in DOMAIN s : IsDigit(s[i])})

\* str.replace('+', '')
StripPlus(s) == SelectSeq(s, LAMBDA c : c /= "+")

UpperChar(c) ==
    CASE c = "u" -> "U"
      [] c = "s" -> "S"
      [] c = "k" -> "K"
      [] c = "f" -> "F"
      [] c = "r" -> "R"
      [] OTHER -> c

\* str.upper()
Upper(r) == [i \in DOMAIN r |-> UpperChar(r[i])]

----------------------------------------------------------------------------
(* PhoneNumber *)

\* re.sub(r'[^\d+]', '', number)
NormalizeNumber(number) == SelectSeq(number, LAMBDA c : IsDigit(c) \/ c = "+")

\* for code, info in countries.items(): the position of the first entry, in
\* the order of the dict, whose calling code without '+' equals
\* potential_code; 0 when the loop ends without one
RECURSIVE FirstMatch(_, _, _)
FirstMatch(countries, potential_code, k) ==
    IF k > Len(countries) THEN 0
    ELSE IF StripPlus(countries[k].calling_code) = potential_code
         THEN k
         ELSE FirstMatch(countries, potential_code, k + 1)

\* DetectFrom changed to try the longest prefix first
RECURSIVE DetectFromLongest(_, _, _)
DetectFromLongest(number, countries, i) ==
    IF i >= 5 THEN None
    ELSE LET n == 5 - i
         IN  IF Len(number) > n
             THEN LET potential_code == SubSeq(number, 2, n + 1)
                      found == FirstMatch(countries, potential_code, 1)
                  IN  IF found /= 0 THEN countries[found].code
                      ELSE DetectFromLongest(number, countries, i + 1)
             ELSE DetectFromLongest(number, countries, i + 1)

\* for i in range(1, 5)
RECURSIVE DetectFrom(_, _, _)
DetectFrom(number, countries, i) ==
    IF i >= 5 THEN None
    ELSE IF Len(number) > i
         THEN LET potential_code == SubSeq(number, 2, i + 1)
                  found == FirstMatch(countries, potential_code, 1)
              IN  IF found /= 0 THEN countries[found].code
                  ELSE DetectFrom(number, countries, i + 1)
         ELSE DetectFrom(number, countries, i + 1)

DetectRegion(number, countries) ==
    IF Len(number) >= 1 /\ number[1] = "+"
    THEN DetectFrom(number, countries, 1)
    ELSE None

\* IsValid changed to exclude the bound of 7 digits
IsValidAbove7(number) ==
    IF number = <<>> THEN FALSE
    ELSE LET digits_only == SelectSeq(number, IsDigit)
         IN  7 < Len(digits_only) /\ Len(digits_only) <= 15

IsValid(number) ==
    IF number = <<>> THEN FALSE
    ELSE LET digits_only == SelectSeq(number, IsDigit)
         IN  7 <= Len(digits_only) /\ Len(digits_only) <= 15

----------------------------------------------------------------------------
(* NumFormatter *)

Whitespace == {" "}

\* s[a:b] of Python: zero-based, half-open, clamped to the text
Slice(s, a, b) ==
    LET hi == IF b > Len(s) THEN Len(s) ELSE b
    IN  IF a >= hi THEN <<>> ELSE SubSeq(s, a + 1, hi)

StartsWith(s, p) == Len(s) >= Len(p) /\ SubSeq(s, 1, Len(p)) = p

\* str.lstrip(chars): drops the leading characters that are members of chars
RECURSIVE LStrip(_, _)
LStrip(s, chars) ==
    IF s /= <<>> /\ (\E i \in DOMAIN chars : chars[i] = s[1])
    THEN LStrip(Tail(s), chars)
    ELSE s

RECURSIVE LStripSpace(_)
LStripSpace(s) ==
    IF s /= <<>> /\ s[1] \in Whitespace THEN LStripSpace(Tail(s)) ELSE s

RECURSIVE RStripSpace(_)
RStripSpace(s) ==
    IF s /= <<>> /\ s[Len(s)] \in Whitespace
    THEN RStripSpace(SubSeq(s, 1, Len(s) - 1))
    ELSE s

\* str.strip()
Strip(s) == RStripSpace(LStripSpace(s))

\* str.replace(old, new) for one-character old and new
Replace(s, old, new) == [i \in DOMAIN s |-> IF s[i] = old THEN new ELSE s[i]]

\* the PhoneFormat enum
PhoneFormat ==
    {"E164", "INTERNATIONAL", "NATIONAL", "DASHED", "DOT", "PARENTHESES",
     "SPACES", "RFC3966", "LOCAL"}

\* INTL_PREFIXES, in the order of the dict; every one is replaced by '+'
INTL_PREFIXES == << <<"0", "0">>, <<"0", "1", "1">>, <<"8", "1", "0">> >>

COUNTRY_CODES == {US, UK, FR}

COUNTRY_RULES ==
    [c \in COUNTRY_CODES |->
        CASE c = US -> [code |-> <<"1">>, pattern |-> <<3, 3, 4>>,
                          national_prefix |-> <<"1">>]
          [] c = UK -> [code |-> <<"4", "4">>, pattern |-> <<4, 3, 4>>,
                          national_prefix |-> <<"0">>]
          [] c = FR -> [code |-> <<"3", "3">>, pattern |-> <<3, 3, 3, 3>>,
                          national_prefix |-> <<"0">>]]

\* COUNTRY_RULES.get(country_code) is not None
HasRule(country_code) == country_code \in COUNTRY_CODES

\* for prefix, replacement in self.INTL_PREFIXES.items(): the first prefix
\* that cleaned starts with is replaced, then break
RECURSIVE ReplacePrefix(_, _)
ReplacePrefix(cleaned, k) ==
    IF k > Len(INTL_PREFIXES) THEN cleaned
    ELSE IF StartsWith(cleaned, INTL_PREFIXES[k])
         THEN <<"+">> \o Slice(cleaned, Len(INTL_PREFIXES[k]), Len(cleaned))
         ELSE ReplacePrefix(cleaned, k + 1)

\* re.sub(r'(?!^\+)[^\d]', '', original): a '+' survives only as the first
\* character of the text
RemoveNonDigits(original) ==
    LET kept == {i \in DOMAIN original :
                    IsDigit(original[i]) \/ (i = 1 /\ original[i] = "+")}
        F[i \in 0..Len(original)] ==
            IF i = 0 THEN <<>>
            ELSE IF i \in kept THEN Append(F[i - 1], original[i]) ELSE F[i - 1]
    IN  F[Len(original)]

ExtractDigits(original) == ReplacePrefix(RemoveNonDigits(original), 1)

\* the characters of the text from position i to the end are all digits
AllDigitsFrom(s, i) == \A j \in i..Len(s) : IsDigit(s[j])

LowerChar(c) ==
    CASE c = "X" -> "x"
      [] c = "E" -> "e"
      [] c = "T" -> "t"
      [] OTHER -> c

\* re.search(r'(?:ext|ex|x|#)\s*(\d+)$', original, re.IGNORECASE): the digits
\* that end the text, when a marker and optional whitespace precede them
ExtractExtension(original) ==
    LET n == Len(original)
        starts == {i \in 1..n : AllDigitsFrom(original, i)}
    IN  IF starts = {} THEN <<>>
        ELSE LET d == CHOOSE i \in starts : \A j \in starts : i <= j
                 blanks == {i \in 0..(d - 1) :
                               \A j \in (i + 1)..(d - 1) : original[j] \in Whitespace}
                 m == CHOOSE i \in blanks : \A j \in blanks : i <= j
                 c == IF m >= 1 THEN LowerChar(original[m]) ELSE ""
                 isExt == /\ m >= 3
                          /\ LowerChar(original[m]) = "t"
                          /\ LowerChar(original[m - 1]) = "x"
                          /\ LowerChar(original[m - 2]) = "e"
             IN  IF c \in {"x", "#"} \/ isExt
                 THEN SubSeq(original, d, n)
                 ELSE <<>>

ExtSuffix(extension) ==
    IF extension /= <<>> THEN <<" ", "e", "x", "t">> \o extension ELSE <<>>

\* '-'.join(result)
RECURSIVE Join(_, _)
Join(groups, sep) ==
    IF groups = <<>> THEN <<>>
    ELSE IF Len(groups) = 1 THEN groups[1]
         ELSE groups[1] \o sep \o Join(Tail(groups), sep)

RECURSIVE GroupLoop(_, _, _, _)
GroupLoop(digits, pattern, k, pos) ==
    IF k > Len(pattern) \/ pos >= Len(digits)
    THEN IF pos < Len(digits) THEN << Slice(digits, pos, Len(digits)) >> ELSE <<>>
    ELSE << Slice(digits, pos, pos + pattern[k]) >>
            \o GroupLoop(digits, pattern, k + 1, pos + pattern[k])

DefaultPattern == <<3, 3, 4>>

GroupDigits(digits, pattern) ==
    LET p == IF pattern = <<>> THEN DefaultPattern ELSE pattern
    IN  Join(GroupLoop(digits, p, 1, 0), <<"-">>)

FormatE164(digits, country_code, extension) ==
    IF StartsWith(digits, <<"+">>) THEN digits \o ExtSuffix(extension)
    ELSE IF country_code = None THEN digits
    ELSE IF ~HasRule(country_code) THEN digits
    ELSE LET country_rule == COUNTRY_RULES[country_code]
         IN  <<"+">> \o country_rule.code
                \o LStrip(digits, country_rule.national_prefix)
                \o ExtSuffix(extension)

\* the part shared by _format_international and _format_delimited
SplitE164(e164) ==
    LET country_code == IF Len(e164) > 3 THEN Slice(e164, 1, 3)
                        ELSE Slice(e164, 1, Len(e164))
    IN  [country_code |-> country_code,
         national_num |-> Slice(e164, Len(country_code) + 1, Len(e164))]

FormatInternational(digits, country_code, extension) ==
    LET e164 == FormatE164(digits, country_code, extension)
    IN  IF ~StartsWith(e164, <<"+">>) THEN e164
        ELSE LET sp == SplitE164(e164)
             IN  <<"+">> \o sp.country_code \o <<" ">>
                    \o GroupDigits(sp.national_num, <<>>)

\* digits.lstrip(country_rule['code']).lstrip(country_rule['national_prefix'])
NationalNum(digits, country_rule) ==
    LStrip(LStrip(digits, country_rule.code), country_rule.national_prefix)

FormatNational(digits, country_code) ==
    IF country_code = None THEN digits
    ELSE IF ~HasRule(country_code) THEN digits
    ELSE LET country_rule == COUNTRY_RULES[country_code]
         IN  GroupDigits(NationalNum(digits, country_rule), country_rule.pattern)

FormatDelimited(digits, country_code, extension, delimiter) ==
    LET e164 == FormatE164(digits, country_code, extension)
    IN  IF ~StartsWith(e164, <<"+">>) THEN e164
        ELSE LET sp == SplitE164(e164)
             IN  <<"+">> \o sp.country_code \o <<delimiter>>
                    \o Replace(GroupDigits(sp.national_num, <<>>), "-", delimiter)

SumSeq(p) ==
    LET F[i \in 0..Len(p)] == IF i = 0 THEN 0 ELSE F[i - 1] + p[i]
    IN  F[Len(p)]

FormatParentheses(digits, country_code, extension) ==
    IF country_code = None THEN FormatInternational(digits, country_code, extension)
    ELSE IF ~HasRule(country_code)
         THEN FormatInternational(digits, country_code, extension)
    ELSE LET country_rule == COUNTRY_RULES[country_code]
             national_num == NationalNum(digits, country_rule)
             area_code_length == country_rule.pattern[1]
         IN  IF Len(national_num) <= SumSeq(country_rule.pattern)
             THEN <<"+">> \o country_rule.code \o <<" ", "(">>
                    \o Slice(national_num, 0, area_code_length) \o <<")", " ">>
                    \o GroupDigits(Slice(national_num, area_code_length,
                                         Len(national_num)),
                                   Tail(country_rule.pattern))
             ELSE FormatInternational(digits, country_code, extension)

FormatSpaces(digits, country_code, extension) ==
    Replace(FormatDelimited(digits, country_code, extension, " "), "-", " ")

FormatLocal(digits, country_code) ==
    IF country_code = None THEN digits
    ELSE IF ~HasRule(country_code) THEN digits
    ELSE LET country_rule == COUNTRY_RULES[country_code]
         IN  GroupDigits(NationalNum(digits, country_rule), country_rule.pattern)

\* NumFormatter.format(style)
Format(digits, country_code, extension, style) ==
    CASE style = "E164" -> FormatE164(digits, country_code, extension)
      [] style = "INTERNATIONAL" -> FormatInternational(digits, country_code, extension)
      [] style = "NATIONAL" -> FormatNational(digits, country_code)
      [] style = "DASHED" -> FormatDelimited(digits, country_code, extension, "-")
      [] style = "DOT" -> FormatDelimited(digits, country_code, extension, ".")
      [] style = "PARENTHESES" -> FormatParentheses(digits, country_code, extension)
      [] style = "SPACES" -> FormatSpaces(digits, country_code, extension)
      [] style = "RFC3966" ->
            <<"t", "e", "l", ":">> \o FormatDelimited(digits, country_code, extension, "-")
      [] style = "LOCAL" -> FormatLocal(digits, country_code)

----------------------------------------------------------------------------
(* JSON values, as json.loads returns them *)

\* null, which json.loads returns as None
JNull == [t |-> "null"]
JNum(n) == [t |-> "num", n |-> n]
JStr(chars) == [t |-> "str", s |-> chars]
JList(items) == [t |-> "list", items |-> items]
\* an object with at least one member; fields is a record of JSON values
JObj(fields) == [t |-> "obj", f |-> fields]

\* bool(value)
Truthy(v) ==
    CASE v.t = "null" -> FALSE
      [] v.t = "num" -> v.n /= 0
      [] v.t = "str" -> v.s /= <<>>
      [] v.t = "list" -> v.items /= <<>>
      [] v.t = "obj" -> TRUE

----------------------------------------------------------------------------
(* _Const, CachePolicy *)

CACHE_TTL == 86400

CachePolicy == {"CACHE_FIRST", "NETWORK_FIRST"}

\* the cache keys of _load_metadata
CacheKeys == {"country_data", "phone_metadata"}

----------------------------------------------------------------------------
(* Bytes of a cache file: pickle and gzip *)

NoFile == [fmt |-> "nofile"]
\* bytes that are no gzip stream
Garbage == [fmt |-> "garbage"]
\* b'', what open(path, 'wb') leaves when the write fails
EmptyBytes == [fmt |-> "empty"]

CacheEntry(data, timestamp) ==
    [cls |-> "CacheEntry", data |-> data, timestamp |-> timestamp]

\* a pickled object that is no CacheEntry
OtherObject == [cls |-> "dict"]

\* pickle.dumps(entry)
Dumps(obj) == [fmt |-> "pickle", obj |-> obj]

\* pickle.loads(data); ok is FALSE where it raises
Loads(data) ==
    IF data.fmt = "pickle" THEN [ok |-> TRUE, val |-> data.obj]
    ELSE [ok |-> FALSE, val |-> JNull]

\* gzip.compress(serialized)
Compress(data) == [fmt |-> "gzip", body |-> data]

\* gzip.decompress(compressed_data); b'' holds no member and gives b''
Decompress(bytes) ==
    CASE bytes.fmt = "gzip" -> [ok |-> TRUE, val |-> bytes.body]
      [] bytes.fmt = "empty" -> [ok |-> TRUE, val |-> EmptyBytes]
      [] OTHER -> [ok |-> FALSE, val |-> EmptyBytes]

\* the try block shared by get and is_expired: read, decompress, unpickle, and
\* reach the attributes of the entry; ok is FALSE where an exception is raised
ReadEntry(bytes) ==
    LET data == Decompress(bytes)
        loaded == IF data.ok THEN Loads(data.val) ELSE [ok |-> FALSE, val |-> JNull]
    IN  IF loaded.ok /\ loaded.val.cls = "CacheEntry"
        THEN [ok |-> TRUE, entry |-> loaded.val]
        ELSE [ok |-> FALSE, entry |-> CacheEntry(JNull, 0)]

----------------------------------------------------------------------------
(* _CacheManager *)

\* CacheGet changed to leave the file it cannot read
CacheGetKeepsFile(fs, key) ==
    IF fs[key] = NoFile THEN [ret |-> JNull, files |-> fs]
    ELSE LET r == ReadEntry(fs[key])
         IN  IF r.ok THEN [ret |-> r.entry.data, files |-> fs]
             ELSE [ret |-> JNull, files |-> fs]

\* get(key): the value returned and the files it leaves
CacheGet(fs, key) ==
    IF fs[key] = NoFile THEN [ret |-> JNull, files |-> fs]
    ELSE LET r == ReadEntry(fs[key])
         IN  IF r.ok THEN [ret |-> r.entry.data, files |-> fs]
             ELSE [ret |-> JNull, files |-> [fs EXCEPT ![key] = NoFile]]

\* what open(cache_path, 'wb') and f.write(compressed) can do
WriteOutcomes == {"ok", "open_fails", "write_fails"}

\* CacheSet changed to store no time
CacheSetNoTime(fs, key, value, t, io) ==
    LET entry == CacheEntry(value, 0)
        compressed == Compress(Dumps(entry))
    IN  CASE io = "ok" -> [ret |-> TRUE, files |-> [fs EXCEPT ![key] = compressed]]
          [] io = "open_fails" -> [ret |-> FALSE, files |-> fs]
          [] io = "write_fails" ->
                [ret |-> FALSE, files |-> [fs EXCEPT ![key] = EmptyBytes]]

\* set(key, value) at time t
CacheSet(fs, key, value, t, io) ==
    LET entry == CacheEntry(value, t)
        compressed == Compress(Dumps(entry))
    IN  CASE io = "ok" -> [ret |-> TRUE, files |-> [fs EXCEPT ![key] = compressed]]
          [] io = "open_fails" -> [ret |-> FALSE, files |-> fs]
          [] io = "write_fails" ->
                [ret |-> FALSE, files |-> [fs EXCEPT ![key] = EmptyBytes]]

\* IsExpired changed to expire an entry at CACHE_TTL seconds
IsExpiredAtTtl(fs, key, t) ==
    IF fs[key] = NoFile THEN TRUE
    ELSE LET r == ReadEntry(fs[key])
         IN  IF r.ok THEN t - r.entry.timestamp >= CACHE_TTL ELSE TRUE

\* is_expired(key) at time t
IsExpired(fs, key, t) ==
    IF fs[key] = NoFile THEN TRUE
    ELSE LET r == ReadEntry(fs[key])
         IN  IF r.ok THEN t - r.entry.timestamp > CACHE_TTL ELSE TRUE

----------------------------------------------------------------------------
(* _MetadataHandler._download_json *)

\* what urlopen and response.read() give
NetError == [st |-> "error"]
NetTimeout == [st |-> "timeout"]
\* a body that is no UTF-8
BadUtf8 == [st |-> "body", enc |-> "bad"]
\* a UTF-8 body that is no JSON document
NotJson == [st |-> "body", enc |-> "utf8", doc |-> FALSE]
\* a UTF-8 body that is the JSON document of value
JsonBody(value) == [st |-> "body", enc |-> "utf8", doc |-> TRUE, value |-> value]

\* urlopen, read, decode('utf-8') and json.loads; ok is FALSE where one raises
FetchJson(response) ==
    IF response.st = "body" /\ response.enc = "utf8" /\ response.doc
    THEN [ok |-> TRUE, val |-> response.value]
    ELSE [ok |-> FALSE, val |-> JNull]

\* DownloadJson changed to fall back on the cache only while the entry is
\* not expired
DownloadJsonFreshOnly(cache_policy, fs, cache_key, t, response, io) ==
    LET cached == CacheGet(fs, cache_key)
        hit == /\ cache_policy = "CACHE_FIRST"
               /\ cached.ret /= JNull
               /\ ~IsExpired(cached.files, cache_key, t)
        fs1 == IF cache_policy = "CACHE_FIRST" THEN cached.files ELSE fs
        fetched == FetchJson(response)
    IN  IF hit THEN [ret |-> cached.ret, files |-> cached.files, requests |-> 0]
        ELSE IF fetched.ok
             THEN [ret |-> fetched.val,
                   files |-> CacheSet(fs1, cache_key, fetched.val, t, io).files,
                   requests |-> 1]
             ELSE LET stale == CacheGet(fs1, cache_key)
                  IN  [ret |-> IF IsExpired(stale.files, cache_key, t) THEN JNull
                               ELSE stale.ret,
                       files |-> stale.files, requests |-> 1]

\* the except branch: return self.cache_manager.get(cache_key)
Fallback(stale) == [ret |-> stale.ret, files |-> stale.files, requests |-> 1]

\* "Download fresh data": the request has been made and fetched is its outcome
Requested(fs, cache_key, t, fetched, io) ==
    IF fetched.ok
    THEN [ret |-> fetched.val,
          files |-> CacheSet(fs, cache_key, fetched.val, t, io).files,
          requests |-> 1]
    ELSE Fallback(CacheGet(fs, cache_key))

\* "Check cache first if policy is CACHE_FIRST": cached is what get returned
CacheFirst(cached, cache_key, t, response, io) ==
    IF cached.ret /= JNull /\ ~IsExpired(cached.files, cache_key, t)
    THEN [ret |-> cached.ret, files |-> cached.files, requests |-> 0]
    ELSE Requested(cached.files, cache_key, t, FetchJson(response), io)

\* _download_json(url, cache_key) at time t, when the server answers response
\* and the cache file is written with outcome io: the value returned, the
\* files left and the number of network requests made
DownloadJson(cache_policy, fs, cache_key, t, response, io) ==
    IF cache_policy = "CACHE_FIRST"
    THEN CacheFirst(CacheGet(fs, cache_key), cache_key, t, response, io)
    ELSE Requested(fs, cache_key, t, FetchJson(response), io)

----------------------------------------------------------------------------
(* _MetadataHandler._load_metadata *)

\* dict.get(key, default) on a JSON object
HasField(o, k) == k \in DOMAIN o.f

\* country.get('name', {}).get('common', ''); raised where the value under
\* 'name' has no get (AttributeError)
CommonName(country) ==
    IF ~HasField(country, "name") THEN [raised |-> FALSE, val |-> JStr(<<>>)]
    ELSE LET name == country.f.name
         IN  IF name.t /= "obj" THEN [raised |-> TRUE, val |-> JNull]
             ELSE IF HasField(name, "common")
                  THEN [raised |-> FALSE, val |-> name.f.common]
                  ELSE [raised |-> FALSE, val |-> JStr(<<>>)]

\* country.get('idd', {}).get('root', '') +
\*   (country.get('idd', {}).get('suffixes', [''])[0]
\*    if country.get('idd', {}).get('suffixes') else '')
\* raised where idd has no get (AttributeError), where the suffixes cannot be
\* indexed by 0 (KeyError, TypeError) and where the two operands of + are not
\* both text (TypeError); two lists or two numbers, which + accepts, are not
\* among the values of the model
CallingCode(country) ==
    IF ~HasField(country, "idd") THEN [raised |-> FALSE, val |-> <<>>]
    ELSE LET idd == country.f.idd
         IN  IF idd.t /= "obj" THEN [raised |-> TRUE, val |-> <<>>]
             ELSE LET root == IF HasField(idd, "root") THEN idd.f.root ELSE JStr(<<>>)
                      suffixes == IF HasField(idd, "suffixes") THEN idd.f.suffixes
                                  ELSE JNull
                      first ==
                          IF ~Truthy(suffixes) THEN [raised |-> FALSE, val |-> JStr(<<>>)]
                          ELSE CASE suffixes.t = "list" ->
                                        [raised |-> FALSE, val |-> suffixes.items[1]]
                                 [] suffixes.t = "str" ->
                                        [raised |-> FALSE, val |-> JStr(<<suffixes.s[1]>>)]
                                 [] suffixes.t \in {"obj", "num"} ->
                                        [raised |-> TRUE, val |-> JNull]
                  IN  IF first.raised THEN [raised |-> TRUE, val |-> <<>>]
                      ELSE CASE root.t = "str" /\ first.val.t = "str" ->
                                    [raised |-> FALSE, val |-> root.s \o first.val.s]
                             [] root.t /= first.val.t
                                  \/ root.t \in {"null", "obj"} ->
                                    [raised |-> TRUE, val |-> <<>>]

\* country.get('cca2', '') as a key of the dict; raised where it is not
\* hashable (TypeError); a number as key is not among the values of the model
RegionKey(country) ==
    IF ~HasField(country, "cca2") THEN [raised |-> FALSE, val |-> <<>>]
    ELSE LET cca2 == country.f.cca2
         IN  CASE cca2.t = "str" -> [raised |-> FALSE, val |-> cca2.s]
               [] cca2.t = "null" -> [raised |-> FALSE, val |-> None]
               [] cca2.t \in {"list", "obj"} -> [raised |-> TRUE, val |-> None]

\* d[key] = value on a dict kept in insertion order: a key that is present
\* keeps its place and takes the new value
DictPut(table, entry) ==
    IF \E k \in DOMAIN table : table[k].code = entry.code
    THEN [k \in DOMAIN table |->
             IF table[k].code = entry.code THEN entry ELSE table[k]]
    ELSE Append(table, entry)

\* the members of country_data the comprehension iterates over: the items of
\* a list; the keys of an object and the characters of a text are no dict and
\* are filtered out; a number is not iterable (TypeError)
Iterate(country_data) ==
    CASE country_data.t = "list" -> [raised |-> FALSE, items |-> country_data.items]
      [] country_data.t \in {"obj", "str"} -> [raised |-> FALSE, items |-> <<>>]
      [] country_data.t = "num" -> [raised |-> TRUE, items |-> <<>>]

\* one step of the dict comprehension: for country in country_data
\*                                      if isinstance(country, dict)
RECURSIVE BuildFrom(_, _, _)
BuildFrom(items, k, table) ==
    IF k > Len(items) THEN [raised |-> FALSE, countries |-> table]
    ELSE LET country == items[k]
         IN  IF country.t /= "obj" THEN BuildFrom(items, k + 1, table)
             ELSE LET key == RegionKey(country)
                      name == CommonName(country)
                      calling_code == CallingCode(country)
                  IN  IF key.raised \/ name.raised \/ calling_code.raised
                      THEN [raised |-> TRUE, countries |-> <<>>]
                      ELSE BuildFrom(items, k + 1,
                               DictPut(table, [code |-> key.val,
                                               name |-> name.val,
                                               calling_code |-> calling_code.val]))

\* self._metadata_cache['countries'] = { ... for country in country_data ... }
BuildCountries(country_data) ==
    LET it == Iterate(country_data)
    IN  IF it.raised THEN [raised |-> TRUE, countries |-> <<>>]
        ELSE BuildFrom(it.items, 1, <<>>)

\* if country_data: self._metadata_cache['countries'] = ...
CountriesOf(country_data) ==
    IF Truthy(country_data) THEN BuildCountries(country_data)
    ELSE [raised |-> FALSE, countries |-> <<>>]

\* the end of _load_metadata: d1 and d2 are what the two calls of
\* _download_json gave, built the countries table
Loaded(d1, built, d2) ==
    [raised |-> FALSE, files |-> d2.files, countries |-> built.countries,
     phone_data |-> IF Truthy(d2.ret) THEN d2.ret ELSE JNull,
     requests |-> d1.requests + d2.requests, downloads |-> 2]

\* the part of _load_metadata after the countries table: an exception of the
\* comprehension leaves _load_metadata before "Load phone metadata"
LoadPhone(cache_policy, t, env, d1, built) ==
    IF built.raised
    THEN [raised |-> TRUE, files |-> d1.files, countries |-> <<>>,
          phone_data |-> JNull, requests |-> d1.requests, downloads |-> 1]
    ELSE Loaded(d1, built,
                DownloadJson(cache_policy, d1.files, "phone_metadata", t,
                             env.r2, env.io2))

\* the part of _load_metadata after "Load country data"
LoadCountries(cache_policy, t, env, d1) ==
    LoadPhone(cache_policy, t, env, d1, CountriesOf(d1.ret))

\* _load_metadata() at time t; env gives what the two servers answer and how
\* the two cache writes end.  downloads counts the calls of _download_json.
LoadMetadata(cache_policy, fs, t, env) ==
    LoadCountries(cache_policy, t, env,
                  DownloadJson(cache_policy, fs, "country_data", t, env.r1, env.io1))

----------------------------------------------------------------------------
(* _MetadataHandler.__init__ and _CacheManager.__init__ *)

NoHandler == [set |-> FALSE]

\* cache_dir.mkdir(parents=True, exist_ok=True): raises when the directory is
\* not there and cannot be made
MkdirRaises(dir) == dir = "blocked"

\* the object that __init__ leaves when _load_metadata returned m
HandlerOf(cache_policy, m) ==
    [raised |-> m.raised, dir |-> "present", files |-> m.files,
     handler |-> IF m.raised THEN NoHandler
                 ELSE [set |-> TRUE, cache_policy |-> cache_policy,
                       countries |-> m.countries, phone_data |-> m.phone_data],
     requests |-> m.requests, downloads |-> m.downloads]

\* _MetadataHandler(cache_policy): the object, or raised
NewHandler(cache_policy, dir, fs, t, env) ==
    IF MkdirRaises(dir)
    THEN [raised |-> TRUE, dir |-> dir, files |-> fs, handler |-> NoHandler,
          requests |-> 0, downloads |-> 0]
    ELSE HandlerOf(cache_policy, LoadMetadata(cache_policy, fs, t, env))

\* get_country_info(country_code): the position of the entry, 0 for None
CountryInfo(h, country_code) ==
    LET hits == {k \in DOMAIN h.countries : h.countries[k].code = Upper(country_code)}
    IN  IF hits = {} THEN 0 ELSE CHOOSE k \in hits : TRUE

----------------------------------------------------------------------------
(* PhoneNumber.__init__ and the properties *)

\* bool(text) of an optional text
Given(x) == x /= None /\ x /= <<>>

\* __init__(number, region) once the metadata handler h is there; number is
\* None when the argument is no str
PhoneNumberInit(number, region, h) ==
    IF ~Given(number)
    THEN [raised |-> "ValueError", number |-> <<>>, region |-> None]
    ELSE LET n == NormalizeNumber(number)
         IN  [raised |-> "no",
              number |-> n,
              region |-> IF Given(region) THEN Upper(region)
                         ELSE DetectRegion(n, h.countries)]

\* digits[-10:][:2]
FirstDigits(digits) ==
    LET last10 == Slice(digits, IF Len(digits) > 10 THEN Len(digits) - 10 ELSE 0,
                        Len(digits))
    IN  Slice(last10, 0, 2)

\* the type property
Type(number, region) ==
    IF ~IsValid(number) \/ ~Given(region) THEN "unknown"
    ELSE LET digits == SelectSeq(number, IsDigit)
             first_digits == FirstDigits(digits)
         IN  IF Len(digits) > 3
             THEN IF first_digits \in {<<"7", "0">>, <<"7", "7">>, <<"7", "8">>,
                                       <<"7", "9">>, <<"5", "5">>, <<"5", "0">>}
                  THEN "mobile"
                  ELSE IF first_digits \in {<<"2", "0">>, <<"3", "0">>, <<"4", "0">>}
                       THEN "landline"
                       ELSE "unknown"
             ELSE "unknown"

\* the country_name property
CountryName(region, h) ==
    IF ~Given(region) THEN JNull
    ELSE LET k == CountryInfo(h, region)
         IN  IF k = 0 THEN JNull ELSE h.countries[k].name

\* the calling_code property
CallingCodeOf(region, h) ==
    IF ~Given(region) THEN None
    ELSE LET k == CountryInfo(h, region)
         IN  IF k = 0 THEN None ELSE h.countries[k].calling_code

\* get_number_report()
NumberReport(number, region, h) ==
    [number |-> number, region |-> region, is_valid |-> IsValid(number),
     type |-> Type(number, region), country_name |-> CountryName(region, h),
     calling_code |-> CallingCodeOf(region, h)]

----------------------------------------------------------------------------
(* Values the variables take while their part of the program is not run *)

NoFiles == [k \in CacheKeys |-> NoFile]
NoObs == [op |-> "none"]
NoWritten == [k \in CacheKeys |-> [st |-> "unset"]]
NoThreads == <<>>
NoPhoneNumber == [pc |-> "none"]
NoFormatter == [pc |-> "none"]
\* threading.Lock(): a lock nobody holds
Unlocked == [held |-> FALSE]

----------------------------------------------------------------------------
(* Specification of one PhoneNumber over a loaded countries table *)

\* the raw numbers: a head, a run of the digit 5, a tail
Heads ==
    { <<>>, <<"+">>, <<"+", "1">>, <<"+", "1", "4", "2">>, <<"(", "1", "4", ")">>,
      <<"+", "1", "+", "4">>, <<"u0663", " ">> }

Tails == { <<>>, <<"-", "2">>, <<"+">> }

RawNumbers == {h \o Rep("5", n) \o t : h \in Heads, n \in 0..MaxRun, t \in Tails}

\* entries of the countries table, as _load_metadata builds them
TableEntries ==
    { [code |-> <<"A", "A">>, name |-> JStr(<<"a">>), calling_code |-> <<"1">>],
      [code |-> <<"B", "B">>, name |-> JStr(<<"b">>), calling_code |-> <<"1", "4">>],
      [code |-> <<"C", "C">>, name |-> JStr(<<"c">>), calling_code |-> <<"+", "1">>],
      [code |-> <<"D", "D">>, name |-> JStr(<<"d">>),
       calling_code |-> <<"+", "1", "4", "2", "5">>],
      [code |-> <<"E", "E">>, name |-> JStr(<<>>), calling_code |-> <<>>],
      [code |-> <<"F", "F">>, name |-> JStr(<<"f">>),
       calling_code |-> <<"+", "1", "4", "2", "5", "5">>] }

\* the tables of at most MaxTable entries, in every order
RECURSIVE TablesOfLen(_)
TablesOfLen(n) ==
    IF n = 0 THEN { <<>> }
    ELSE {Append(t, e) : t \in TablesOfLen(n - 1), e \in TableEntries}

Tables ==
    {t \in UNION {TablesOfLen(n) : n \in 0..MaxTable} :
        \A i, j \in DOMAIN t : i /= j => t[i].code /= t[j].code}

GivenRegions == {None, <<"u", "s">>}

InitNumber ==
    /\ files = NoFiles
    /\ cacheDir = "present"
    /\ now = 0
    /\ obs = NoObs
    /\ written = NoWritten
    /\ handler \in {[set |-> TRUE, cache_policy |-> "CACHE_FIRST",
                     countries |-> t, phone_data |-> JNull] : t \in Tables}
    /\ threads = NoThreads
    /\ nHandlers = 1
    /\ nDownloads = 2
    /\ pn \in {[pc |-> "new", raw |-> r, given |-> g, raised |-> "no",
                number |-> <<>>, region |-> None] : r \in RawNumbers, g \in GivenRegions}
    /\ fm = NoFormatter
    /\ lock = Unlocked

\* PhoneNumber(raw, given)
PN_Init ==
    /\ pn.pc = "new"
    /\ LET r == PhoneNumberInit(pn.raw, pn.given, handler)
       IN  pn' = [pn EXCEPT !.pc = IF r.raised = "no" THEN "made" ELSE "raised",
                            !.raised = r.raised,
                            !.number = r.number,
                            !.region = r.region]
    /\ UNCHANGED <<files, cacheDir, now, obs, written, handler, threads,
                   nHandlers, nDownloads, fm, lock>>

\* get_number_report(), which reads every property
PN_Report ==
    /\ pn.pc = "made"
    /\ pn' = [pc |-> "read", raw |-> pn.raw, given |-> pn.given, raised |-> pn.raised,
              number |-> pn.number, region |-> pn.region,
              report |-> NumberReport(pn.number, pn.region, handler)]
    /\ UNCHANGED <<files, cacheDir, now, obs, written, handler, threads,
                   nHandlers, nDownloads, fm, lock>>

NextNumber == PN_Init \/ PN_Report

SpecNumber == InitNumber /\ [][NextNumber]_vars

\* C7: with no explicit region, the region of a PhoneNumber is that of the
\* first table entry, in table order, whose calling code without '+' equals
\* the shortest of the prefixes of length 1 to 4 of the text after the leading
\* '+' that any entry matches; it is None when no such prefix matches or the
\* number has no leading '+'.
ClaimC7_ShortestPrefixWins ==
    (pn.pc \in {"made", "read"} /\ ~Given(pn.given)) =>
        LET n == pn.number
            T == handler.countries
            Matches(i) == {k \in DOMAIN T :
                              StripPlus(T[k].calling_code) = SubSeq(n, 2, i + 1)}
            lens == {i \in 1..4 : Len(n) >= i + 1 /\ Matches(i) /= {}}
        IN  IF Len(n) = 0 \/ n[1] /= "+" \/ lens = {}
            THEN pn.region = None
            ELSE LET i0 == CHOOSE i \in lens : \A j \in lens : i <= j
                     k0 == CHOOSE k \in Matches(i0) : \A j \in Matches(i0) : k <= j
                 IN  pn.region = T[k0].code

\* a number "+14..." resolved against a table that holds the codes "1" (AA)
\* and "14" (BB): the region is AA
WitnessC7 ==
    /\ pn.pc = "made"
    /\ ~Given(pn.given)
    /\ Len(pn.number) > 3
    /\ SubSeq(pn.number, 1, 3) = <<"+", "1", "4">>
    /\ Len(handler.countries) = 2
    /\ handler.countries[1].code = <<"B", "B">>
    /\ handler.countries[2].code = <<"A", "A">>
    /\ pn.region = <<"A", "A">>

ClaimC10_IsValidIffDigitCount ==
    pn.pc = "read" =>
        (pn.report.is_valid <=>
            (7 <= CountDigits(pn.number) /\ CountDigits(pn.number) <= 15))

\* a number of 16 digits with a known region is reported invalid
WitnessC10 ==
    /\ pn.pc = "read"
    /\ CountDigits(pn.number) = 16
    /\ pn.region /= None
    /\ ~pn.report.is_valid

----------------------------------------------------------------------------
(* Specification of one NumFormatter *)

IntlPrefixes == { <<"+">>, <<"0", "0">>, <<"0", "1", "1">>, <<"8", "1", "0">> }

\* raw numbers: an optional international prefix and calling code, a national
\* number, an optional extension
FormatterHeads ==
    {<<>>, <<" ">>} \cup
    {p \o sep \o c \o <<" ">> : p \in IntlPrefixes, sep \in {<<>>, <<" ">>},
                                c \in {<<"1">>, <<"4", "4">>, <<"3", "3">>}}

NationalNumbers ==
    { <<"6", "5", "0", "-", "5", "5", "5", "-", "1", "2", "3", "4">>,
      <<"2", "0", " ", "7", "9", "4", "6", " ", "0", "9", "5", "8">>,
      <<"1", " ", "4", "2", " ", "6", "8", " ", "5", "3", " ", "0", "0">>,
      <<"(", "0", ")", "1", "1", "3", "3", "4", "4", "5">>,
      <<"5", "5", "5", "-", "1", "2", "3", "4">> }

Extensions == { <<>>, <<" ", "x", "9">>, <<" ", "E", "x", "t", " ", "1", "2">>, <<" ">> }

FormatterInputs ==
    {h \o n \o e : h \in FormatterHeads, n \in NationalNumbers, e \in Extensions}

FormatterRegions == {None, US, UK, FR, <<"u", "s">>, <<"D", "Z">>}

InitFormat ==
    /\ files = NoFiles
    /\ cacheDir = "present"
    /\ now = 0
    /\ obs = NoObs
    /\ written = NoWritten
    /\ handler = NoHandler
    /\ threads = NoThreads
    /\ nHandlers = 0
    /\ nDownloads = 0
    /\ pn = NoPhoneNumber
    /\ fm \in {[pc |-> "new", raw |-> r, arg |-> c] :
                  r \in FormatterInputs, c \in FormatterRegions}
    /\ lock = Unlocked

\* NumFormatter(number, country_code)
FM_Init ==
    /\ fm.pc = "new"
    /\ LET original == Strip(fm.raw)
       IN  fm' = [pc |-> "made", raw |-> fm.raw, arg |-> fm.arg,
                  original |-> original,
                  country_code |-> IF Given(fm.arg) THEN Upper(fm.arg) ELSE None,
                  digits |-> ExtractDigits(original),
                  extension |-> ExtractExtension(original),
                  style |-> "none", out |-> <<>>]
    /\ UNCHANGED <<files, cacheDir, now, obs, written, handler, threads,
                   nHandlers, nDownloads, pn, lock>>

\* format(style)
FM_Format ==
    /\ fm.pc \in {"made", "formatted"}
    /\ \E style \in PhoneFormat :
          fm' = [fm EXCEPT !.pc = "formatted",
                           !.style = style,
                           !.out = Format(fm.digits, fm.country_code,
                                          fm.extension, style)]
    /\ UNCHANGED <<files, cacheDir, now, obs, written, handler, threads,
                   nHandlers, nDownloads, pn, lock>>

NextFormat == FM_Init \/ FM_Format

SpecFormat == InitFormat /\ [][NextFormat]_vars

\* the raw input is in international form for the rule: '+' or an
\* international dialing prefix, then the calling code of the rule
InternationalForm(raw, country_rule) ==
    \E p \in IntlPrefixes :
        StartsWith(NormalizeNumber(raw), p \o country_rule.code)

\* C9: for a region with a built-in rule and a raw input in international
\* form, format(LOCAL) holds no '+' and does not begin with the calling code.
ClaimC9_LocalHasNoCountryCode ==
    (/\ fm.pc = "formatted"
     /\ fm.style = "LOCAL"
     /\ HasRule(fm.country_code)
     /\ InternationalForm(fm.raw, COUNTRY_RULES[fm.country_code])) =>
        /\ \A i \in DOMAIN fm.out : fm.out[i] /= "+"
        /\ ~StartsWith(SelectSeq(fm.out, IsDigit), COUNTRY_RULES[fm.country_code].code)

----------------------------------------------------------------------------
(* Specification of the cache layer: one _CacheManager and the              *)
(* _download_json of a handler of either policy, called for one cache key   *)
(* over a running clock                                                     *)

PhoneData == JList(<<JStr(<<"u", "s">>)>>)

\* what the servers may answer with a JSON document
CachePayloads == {JNull, PhoneData}

Responses ==
    {NetError, NetTimeout, BadUtf8, NotJson} \cup {JsonBody(v) : v \in CachePayloads}

\* bytes that are no compressed pickled CacheEntry
CorruptBytes == {Garbage, EmptyBytes, Compress(Garbage), Compress(Dumps(OtherObject))}

\* the file exists and get cannot read an entry from it
Corrupt(bytes) == bytes /= NoFile /\ ~ReadEntry(bytes).ok

InitCache ==
    /\ files = NoFiles
    /\ cacheDir = "present"
    /\ now = 0
    /\ obs \in {[op |-> "none", key |-> k] : k \in CacheKeys}
    /\ written = NoWritten
    /\ handler = NoHandler
    /\ threads = NoThreads
    /\ nHandlers = 0
    /\ nDownloads = 0
    /\ pn = NoPhoneNumber
    /\ fm = NoFormatter
    /\ lock = Unlocked

\* written[key] after a call that found the bytes pre and left the bytes
\* post, and that ran set(key, value) at time t with outcome io when didSet
WrittenAfter(w, pre, post, didSet, value, t, io) ==
    IF didSet /\ io = "ok" THEN [st |-> "set", v |-> value, t |-> t]
    ELSE IF pre /= NoFile /\ post = NoFile THEN [st |-> "healed"]
    ELSE IF didSet /\ io = "write_fails" THEN [st |-> "lost"]
    ELSE w

\* cache_manager.get(key)
C_Get ==
    LET key == obs.key
        r == CacheGet(files, key)
    IN  /\ files' = r.files
        /\ written' = [written EXCEPT ![key] =
                          WrittenAfter(@, files[key], r.files[key], FALSE, JNull,
                                       now, "ok")]
        /\ obs' = [op |-> "get", key |-> key, pre |-> files[key],
                   prew |-> written[key], ret |-> r.ret, t |-> now]
        /\ UNCHANGED <<cacheDir, now, handler, threads, nHandlers, nDownloads,
                       pn, fm, lock>>

\* cache_manager.set(key, value)
C_Set ==
    \E value \in CachePayloads, io \in WriteOutcomes :
        LET key == obs.key
            r == CacheSet(files, key, value, now, io)
        IN  /\ files' = r.files
            /\ written' = [written EXCEPT ![key] =
                              WrittenAfter(@, files[key], r.files[key], TRUE,
                                           value, now, io)]
            /\ obs' = [op |-> "set", key |-> key, pre |-> files[key],
                       prew |-> written[key], value |-> value, ret |-> r.ret,
                       t |-> now]
            /\ UNCHANGED <<cacheDir, now, handler, threads, nHandlers,
                           nDownloads, pn, fm, lock>>

\* cache_manager.is_expired(key)
C_IsExpired ==
    LET key == obs.key
    IN  /\ obs' = [op |-> "is_expired", key |-> key, pre |-> files[key],
                   prew |-> written[key], ret |-> IsExpired(files, key, now),
                   t |-> now]
        /\ UNCHANGED <<files, cacheDir, now, written, handler, threads,
                       nHandlers, nDownloads, pn, fm, lock>>

\* _download_json(url, cache_key) of a handler with cache_policy
C_Download ==
    \E cache_policy \in CachePolicy, response \in Responses :
      \E io \in IF FetchJson(response).ok THEN WriteOutcomes ELSE {"ok"} :
        LET key == obs.key
            r == DownloadJson(cache_policy, files, key, now, response, io)
            fetched == r.requests = 1 /\ FetchJson(response).ok
        IN  /\ files' = r.files
            /\ written' = [written EXCEPT ![key] =
                              WrittenAfter(@, files[key], r.files[key], fetched,
                                           FetchJson(response).val, now, io)]
            /\ obs' = [op |-> "download", key |-> key, pre |-> files[key],
                       prew |-> written[key], policy |-> cache_policy,
                       ret |-> r.ret, requests |-> r.requests,
                       failed |-> (r.requests = 1 /\ ~FetchJson(response).ok),
                       t |-> now]
            /\ UNCHANGED <<cacheDir, now, handler, threads, nHandlers,
                           nDownloads, pn, fm, lock>>

\* something else writes bytes that are no cache entry into the file of key
C_Corrupt ==
    \E bytes \in CorruptBytes :
        LET key == obs.key
        IN  /\ files' = [files EXCEPT ![key] = bytes]
            /\ written' = [written EXCEPT ![key] = [st |-> "lost"]]
            /\ obs' = [op |-> "corrupt", key |-> key, pre |-> files[key],
                       prew |-> written[key], t |-> now]
            /\ UNCHANGED <<cacheDir, now, handler, threads, nHandlers,
                           nDownloads, pn, fm, lock>>

\* a second passes
C_TickSecond ==
    /\ now % CACHE_TTL < MaxSecs
    /\ now' = now + 1
    /\ UNCHANGED <<files, cacheDir, obs, written, handler, threads, nHandlers,
                   nDownloads, pn, fm, lock>>

\* CACHE_TTL seconds pass
C_TickDay ==
    /\ now \div CACHE_TTL < MaxDays
    /\ now' = now + CACHE_TTL
    /\ UNCHANGED <<files, cacheDir, obs, written, handler, threads, nHandlers,
                   nDownloads, pn, fm, lock>>

NextCache ==
    \/ C_Get
    \/ C_Set
    \/ C_IsExpired
    \/ C_Download
    \/ C_Corrupt
    \/ C_TickSecond
    \/ C_TickDay

SpecCache == InitCache /\ [][NextCache]_vars

\* C3: when the network attempt of _download_json fails, under either policy,
\* the call returns the payload last stored under the key, however old, and
\* None when the key holds no readable entry.
ClaimC3_StaleFallback ==
    (obs.op = "download" /\ obs.failed) =>
        obs.ret = IF obs.prew.st = "set" THEN obs.prew.v ELSE JNull

\* the network fails and the entry, older than the TTL, is returned
WitnessC3 ==
    /\ obs.op = "download"
    /\ obs.failed
    /\ obs.prew.st = "set"
    /\ obs.t - obs.prew.t > CACHE_TTL
    /\ obs.ret = PhoneData

\* C4 as stated: under CACHE_FIRST an entry not older than the TTL is
\* returned without a network request, and a request is made only when the
\* entry is missing or expired, or under NETWORK_FIRST.
ClaimC4_FreshEntryNoRequest ==
    obs.op = "download" =>
        /\ (/\ obs.policy = "CACHE_FIRST"
            /\ obs.prew.st = "set"
            /\ obs.t - obs.prew.t <= CACHE_TTL) =>
                (obs.ret = obs.prew.v /\ obs.requests = 0)
        /\ obs.requests = 1 =>
                \/ obs.policy = "NETWORK_FIRST"
                \/ obs.prew.st /= "set"
                \/ obs.t - obs.prew.t > CACHE_TTL

\* C4 amended: the same for an entry whose payload is not None; an entry that
\* holds None (the JSON document null) is fetched again.
ClaimC4_FreshNonNullEntryNoRequest ==
    obs.op = "download" =>
        /\ (/\ obs.policy = "CACHE_FIRST"
            /\ obs.prew.st = "set"
            /\ obs.prew.v /= JNull
            /\ obs.t - obs.prew.t <= CACHE_TTL) =>
                (obs.ret = obs.prew.v /\ obs.requests = 0)
        /\ obs.requests = 1 =>
                \/ obs.policy = "NETWORK_FIRST"
                \/ obs.prew.st /= "set"
                \/ obs.prew.v = JNull
                \/ obs.t - obs.prew.t > CACHE_TTL

\* an entry exactly CACHE_TTL seconds old is served without a request
WitnessC4 ==
    /\ obs.op = "download"
    /\ obs.policy = "CACHE_FIRST"
    /\ obs.prew.st = "set"
    /\ obs.t - obs.prew.t = CACHE_TTL
    /\ obs.ret = PhoneData
    /\ obs.requests = 0

\* C5: after a set that succeeded, get returns the value set, however old the
\* entry; is_expired is False while less than CACHE_TTL seconds have passed
\* since the set and True once more have passed; is_expired of a key never
\* set is True.
ClaimC5_RoundTrip ==
    /\ (obs.op = "set" /\ obs.ret) =>
            /\ written[obs.key] = [st |-> "set", v |-> obs.value, t |-> obs.t]
            /\ CacheGet(files, obs.key).ret = obs.value
            /\ ~IsExpired(files, obs.key, obs.t)
    /\ (obs.op = "get" /\ obs.prew.st = "set") => obs.ret = obs.prew.v
    /\ (obs.op = "is_expired" /\ obs.prew.st = "set") =>
            /\ obs.t - obs.prew.t < CACHE_TTL => ~obs.ret
            /\ obs.t - obs.prew.t > CACHE_TTL => obs.ret
    /\ (obs.op = "is_expired" /\ obs.prew.st = "unset") => obs.ret

\* get returns the value of an entry that is_expired calls expired
WitnessC5 ==
    /\ obs.op = "get"
    /\ obs.prew.st = "set"
    /\ obs.t - obs.prew.t > CACHE_TTL
    /\ obs.ret = PhoneData

\* C6: get on a file whose bytes are no entry returns None and removes the
\* file; a get after that returns None again and a set after that makes the
\* key readable again.
ClaimC6_SelfHealing ==
    /\ (obs.op = "get" /\ obs.pre \in CorruptBytes) =>
            (obs.ret = JNull /\ files[obs.key] = NoFile)
    /\ (obs.op = "get" /\ obs.prew.st = "healed") =>
            (obs.pre = NoFile /\ obs.ret = JNull /\ files[obs.key] = NoFile)
    /\ (obs.op = "set" /\ obs.prew.st = "healed" /\ obs.ret) =>
            CacheGet(files, obs.key) = [ret |-> obs.value, files |-> files]

\* a second get after the get that removed a corrupt file
WitnessC6 ==
    /\ obs.op = "get"
    /\ obs.prew.st = "healed"
    /\ written[obs.key].st = "healed"
    /\ obs.ret = JNull

----------------------------------------------------------------------------
(* Specification of the process: threads that each construct a PhoneNumber, *)
(* over a cache directory in any state and servers that answer anything     *)

\* records of the country metadata
RecFR ==
    JObj([cca2 |-> JStr(FR),
          name |-> JObj([common |-> JStr(<<"F", "r", "a", "n", "c", "e">>)]),
          idd |-> JObj([root |-> JStr(<<"+", "3">>),
                        suffixes |-> JList(<<JStr(<<"3">>)>>)])])

RecUS ==
    JObj([cca2 |-> JStr(US),
          name |-> JObj([common |-> JStr(<<"U", "S", "A">>)]),
          idd |-> JObj([root |-> JStr(<<"+", "1">>),
                        suffixes |-> JList(<<JStr(<<"2", "0", "1">>),
                                             JStr(<<"2", "0", "2">>)>>)])])

\* a record whose name is a text, not an object
RecNameText ==
    JObj([cca2 |-> JStr(UK),
          name |-> JStr(<<"U", "K">>),
          idd |-> JObj([root |-> JStr(<<"+", "4">>),
                        suffixes |-> JList(<<JStr(<<"4">>)>>)])])

\* a record whose idd.root is null
RecRootNull ==
    JObj([cca2 |-> JStr(UK),
          name |-> JObj([common |-> JStr(<<"U", "K">>)]),
          idd |-> JObj([root |-> JNull])])

\* an answer that is an object, not a list of records
ErrorObject == JObj([message |-> JStr(<<"n", "o">>)])

GoodCountries == JList(<<RecFR, RecUS>>)
TextNameCountries == JList(<<RecFR, RecNameText>>)
RootNullCountries == JList(<<RecRootNull>>)

CountryPayloads ==
    {GoodCountries, TextNameCountries, RootNullCountries, ErrorObject, JNum(5), JNull}

CountryResponses == {NetError, NotJson} \cup {JsonBody(v) : v \in CountryPayloads}

PhoneResponses == {NetTimeout, BadUtf8, JsonBody(PhoneData)}

\* what the servers answer and how the cache writes end during one
\* _load_metadata
Environments ==
    {[r1 |-> r1, io1 |-> io1, r2 |-> r2, io2 |-> io2] :
        r1 \in CountryResponses, io1 \in {"ok", "write_fails"},
        r2 \in PhoneResponses, io2 \in {"ok", "open_fails"}}

\* the cache file of a key as an earlier process may have left it at time t:
\* none, one that cannot be read, an entry CACHE_TTL seconds old (not yet
\* expired) and one older than that
LeftFiles(payloads, t) ==
    {NoFile, Garbage}
        \cup {Compress(Dumps(CacheEntry(v, t - CACHE_TTL))) : v \in payloads}
        \cup {Compress(Dumps(CacheEntry(v, t - CACHE_TTL - 1))) : v \in payloads}

Threads == 1..NThreads

\* the arguments of PhoneNumber: the empty text and two numbers
ThreadInputs == { <<>>, <<"+", "3", "3", "1">>, <<"5", "5", "5">> }

Init ==
    /\ now = CACHE_TTL + 1
    /\ \/ /\ cacheDir = "present"
          /\ files \in {[country_data |-> c, phone_metadata |-> p] :
                           c \in LeftFiles({GoodCountries, TextNameCountries}, now),
                           p \in LeftFiles({PhoneData}, now)}
       \/ /\ cacheDir \in {"absent", "blocked"}
          /\ files = NoFiles
    /\ obs = NoObs
    /\ written = NoWritten
    /\ handler = NoHandler
    /\ threads \in [Threads -> {[pc |-> "start", raw |-> r, raised |-> "no",
                                 h |-> NoHandler, number |-> <<>>, region |-> None] :
                                   r \in ThreadInputs}]
    /\ nHandlers = 0
    /\ nDownloads = 0
    /\ pn = NoPhoneNumber
    /\ fm = NoFormatter
    /\ lock = Unlocked

\* if not number or not isinstance(number, str): raise ValueError
\* if PhoneNumber._metadata_handler is None:
T_Check(i) ==
    /\ threads[i].pc = "start"
    /\ threads' = [threads EXCEPT ![i] =
          IF ~Given(@.raw) THEN [@ EXCEPT !.pc = "raised", !.raised = "ValueError"]
          ELSE IF ~handler.set THEN [@ EXCEPT !.pc = "construct"]
          ELSE [@ EXCEPT !.pc = "rest"]]
    /\ UNCHANGED <<files, cacheDir, now, obs, written, handler, nHandlers,
                   nDownloads, pn, fm, lock>>

\* the state after thread i ran _MetadataHandler() with outcome r
Constructed(i, r) ==
    /\ files' = r.files
    /\ cacheDir' = r.dir
    /\ nHandlers' = nHandlers + 1
    /\ nDownloads' = nDownloads + r.downloads
    /\ threads' = [threads EXCEPT ![i] =
          IF r.raised
          THEN [@ EXCEPT !.pc = "raised", !.raised = "MetadataError"]
          ELSE [@ EXCEPT !.pc = "assign", !.h = r.handler]]

\* _MetadataHandler(), the right-hand side of the assignment
T_Construct(i) ==
    /\ threads[i].pc = "construct"
    /\ \E env \in Environments :
          Constructed(i, NewHandler("CACHE_FIRST", cacheDir, files, now, env))
    /\ UNCHANGED <<now, obs, written, handler, pn, fm, lock>>

\* PhoneNumber._metadata_handler = <the object constructed>
T_Assign(i) ==
    /\ threads[i].pc = "assign"
    /\ handler' = threads[i].h
    /\ threads' = [threads EXCEPT ![i].pc = "rest"]
    /\ UNCHANGED <<files, cacheDir, now, obs, written, nHandlers, nDownloads,
                   pn, fm, lock>>

\* self.number = ...; self.region = ...
T_Rest(i) ==
    /\ threads[i].pc = "rest"
    /\ LET r == PhoneNumberInit(threads[i].raw, None, handler)
       IN  threads' = [threads EXCEPT ![i].pc = "done",
                                      ![i].number = r.number,
                                      ![i].region = r.region]
    /\ UNCHANGED <<files, cacheDir, now, obs, written, handler, nHandlers,
                   nDownloads, pn, fm, lock>>

Next ==
    \E i \in Threads :
        \/ T_Check(i)
        \/ T_Construct(i)
        \/ T_Assign(i)
        \/ T_Rest(i)

Spec == Init /\ [][Next]_vars

\* C1: however the threads interleave, _MetadataHandler is instantiated at
\* most once, so that at most one pair of metadata downloads is made.
ClaimC1_HandlerConstructedOnce ==
    nHandlers <= 1 /\ nDownloads <= 2

\* C2: a PhoneNumber given a non-empty text is constructed whatever the
\* servers answer and whatever the state of the cache directory and files.
ClaimC2_MetadataNeverRaises ==
    \A i \in Threads :
        /\ threads[i].raised \in {"no", "ValueError"}
        /\ Given(threads[i].raw) => threads[i].raised = "no"

----------------------------------------------------------------------------
(* Specification of the threads that call set() on one _CacheManager.  A    *)
(* thread is "start" when it has called set, "ready" when the entry is      *)
(* pickled and compressed, "opened" when the file is open for writing,      *)
(* "written" when f.write has returned, "closed" when the with block is    *)
(* left, "failed" in the except branch, and "done" when set has returned.   *)

\* the arguments of set
SetCalls == {[key |-> k, value |-> v] : k \in CacheKeys, v \in CachePayloads}

\* the write sequence of set: the file is open and not yet closed
WriteSequence == {"opened", "written"}

InitSet ==
    /\ files = NoFiles
    /\ cacheDir = "present"
    /\ now = 0
    /\ obs = NoObs
    /\ written = NoWritten
    /\ handler = NoHandler
    /\ threads \in [Threads -> {[pc |-> "start", key |-> c.key, value |-> c.value,
                                 compressed |-> EmptyBytes, ret |-> "none"] :
                                   c \in SetCalls}]
    /\ nHandlers = 0
    /\ nDownloads = 0
    /\ pn = NoPhoneNumber
    /\ fm = NoFormatter
    /\ lock = Unlocked

\* entry = CacheEntry(data=value, timestamp=time.time())
\* serialized = pickle.dumps(entry); compressed = gzip.compress(serialized)
S_Prepare(i) ==
    /\ threads[i].pc = "start"
    /\ threads' = [threads EXCEPT ![i] =
          [@ EXCEPT !.pc = "ready",
                    !.compressed = Compress(Dumps(CacheEntry(threads[i].value, now)))]]
    /\ UNCHANGED <<files, cacheDir, now, obs, written, handler, nHandlers,
                   nDownloads, pn, fm, lock>>

\* with open(cache_path, 'wb') as f: the file is made or truncated, or open
\* raises.  The lock of the instance is not taken.
S_Open(i) ==
    /\ threads[i].pc = "ready"
    /\ \/ /\ files' = [files EXCEPT ![threads[i].key] = EmptyBytes]
          /\ threads' = [threads EXCEPT ![i].pc = "opened"]
       \/ /\ files' = files
          /\ threads' = [threads EXCEPT ![i].pc = "failed"]
    /\ UNCHANGED <<cacheDir, now, obs, written, handler, nHandlers,
                   nDownloads, pn, fm, lock>>

\* f.write(compressed): the bytes go to the buffer of f, or write raises and
\* the with block closes the file
S_Write(i) ==
    /\ threads[i].pc = "opened"
    /\ \E ok \in BOOLEAN :
          threads' = [threads EXCEPT ![i].pc = IF ok THEN "written" ELSE "failed"]
    /\ UNCHANGED <<files, cacheDir, now, obs, written, handler, nHandlers,
                   nDownloads, pn, fm, lock>>

\* what the file can hold after f flushed bytes from its start into a file
\* that held old: over bytes of another writer that are longer, the end of
\* those stays behind the new ones
Flushed(old, bytes) ==
    IF old = EmptyBytes \/ old = bytes \/ old = NoFile THEN {bytes}
    ELSE {bytes, Garbage}

\* the end of the with block: f is flushed and closed
S_Close(i) ==
    /\ threads[i].pc = "written"
    /\ \E b \in Flushed(files[threads[i].key], threads[i].compressed) :
          files' = [files EXCEPT ![threads[i].key] = b]
    /\ threads' = [threads EXCEPT ![i].pc = "closed"]
    /\ UNCHANGED <<cacheDir, now, obs, written, handler, nHandlers,
                   nDownloads, pn, fm, lock>>

\* return True, or in the except branch return False
S_Return(i) ==
    /\ threads[i].pc \in {"closed", "failed"}
    /\ threads' = [threads EXCEPT ![i] =
          [@ EXCEPT !.pc = "done",
                    !.ret = IF threads[i].pc = "closed" THEN "True" ELSE "False"]]
    /\ UNCHANGED <<files, cacheDir, now, obs, written, handler, nHandlers,
                   nDownloads, pn, fm, lock>>

NextSet ==
    \E i \in Threads :
        \/ S_Prepare(i)
        \/ S_Open(i)
        \/ S_Write(i)
        \/ S_Close(i)
        \/ S_Return(i)

SpecSet == InitSet /\ [][NextSet]_vars

\* C11: however concurrent calls of set on one _CacheManager interleave, at
\* most one of them is inside its write sequence (file opened, entry
\* written, file not yet closed) at a time.
ClaimC11_WriteSequencesExclusive ==
    Cardinality({i \in Threads : threads[i].pc \in WriteSequence}) <= 1

----------------------------------------------------------------------------
(* Specification of one _MetadataHandler built from the records the         *)
(* country server answers                                                   *)

\* most records in one answer of the country server
MaxRecords == 3

\* records that lack a field: no cca2, no name, a name without common, no
\* idd, an idd without root
LackingRecords ==
    { JObj([name |-> JObj([common |-> JStr(<<"X">>)]),
            idd |-> JObj([root |-> JStr(<<"+", "9">>),
                          suffixes |-> JList(<<JStr(<<"9">>)>>)])]),
      JObj([cca2 |-> JStr(UK),
            idd |-> JObj([root |-> JStr(<<"+", "4">>),
                          suffixes |-> JList(<<JStr(<<"4">>)>>)])]),
      JObj([cca2 |-> JStr(UK),
            name |-> JObj([official |-> JStr(<<"U", "K">>)]),
            idd |-> JObj([root |-> JStr(<<"+", "4">>),
                          suffixes |-> JList(<<JStr(<<"4">>)>>)])]),
      JObj([cca2 |-> JStr(UK),
            name |-> JObj([common |-> JStr(<<"U", "K">>)])]),
      JObj([cca2 |-> JStr(UK),
            name |-> JObj([common |-> JStr(<<"U", "K">>)]),
            idd |-> JObj([suffixes |-> JList(<<JStr(<<"4">>)>>)])]) }

CountryRecords == {RecFR, RecUS} \cup LackingRecords

\* the lists of records the country server answers
RecordLists == UNION {[1..n -> CountryRecords] : n \in 0..MaxRecords}

InitLoad ==
    /\ files = NoFiles
    /\ cacheDir = "present"
    /\ now = 0
    /\ obs = NoObs
    /\ written = NoWritten
    /\ handler = NoHandler
    /\ threads = NoThreads
    /\ nHandlers = 0
    /\ nDownloads = 0
    /\ pn = NoPhoneNumber
    /\ fm = NoFormatter
    /\ lock = Unlocked

\* the state after _MetadataHandler() ran with outcome r on the answer
\* country_data of the country server
LoadedFrom(country_data, r) ==
    /\ files' = r.files
    /\ handler' = r.handler
    /\ obs' = [op |-> "load", country_data |-> country_data, raised |-> r.raised]
    /\ nHandlers' = nHandlers + 1
    /\ nDownloads' = nDownloads + r.downloads

\* _MetadataHandler(): the country server answers a list of records, the
\* phone metadata server answers or fails
L_Construct ==
    /\ ~handler.set
    /\ \E records \in RecordLists, r2 \in PhoneResponses :
          LoadedFrom(JList(records),
                     NewHandler("CACHE_FIRST", cacheDir, files, now,
                                [r1 |-> JsonBody(JList(records)), io1 |-> "ok",
                                 r2 |-> r2, io2 |-> "ok"]))
    /\ UNCHANGED <<cacheDir, now, written, threads, pn, fm, lock>>

NextLoad == L_Construct

SpecLoad == InitLoad /\ [][NextLoad]_vars

\* C12: the table built from the fetched records is the table of the records
\* that have cca2, name.common and idd.root: a record lacking one of them
\* leaves no entry (none under an empty region code, none with an empty name
\* or calling code), and the build is not aborted.
ClaimC12_LackingRecordsSkipped ==
    obs.op = "load" =>
        LET Whole(country) ==
                /\ HasField(country, "cca2")
                /\ HasField(country, "name") /\ HasField(country.f.name, "common")
                /\ HasField(country, "idd") /\ HasField(country.f.idd, "root")
            whole == JList(SelectSeq(obs.country_data.items, Whole))
        IN  /\ ~obs.raised
            /\ handler.countries = CountriesOf(whole).countries
            /\ \A k \in DOMAIN handler.countries :
                  /\ handler.countries[k].code /= <<>>
                  /\ handler.countries[k].name /= JStr(<<>>)
                  /\ handler.countries[k].calling_code /= <<>>

====
